---- MODULE Spec2Model ----
(***************************************************************************)
(* A model of mimic-capture (src/src/main.rs): the 7x7 hex board, the      *)
(* collapse of unsupported outer cells, the breadth-first reachability     *)
(* from the pivot, the benefit of a removal set and the search over        *)
(* removal sets of growing size.                                           *)
(*                                                                         *)
(* A Cell is the pair <<row, col>>.  The bitmap `cells` of a Board is      *)
(* modelled by the set of coordinates whose entry is true, and the         *)
(* HashMap map_live_outer_cells by the set of its keys (the value stored   *)
(* under (row, col) is always Cell {row, col}).                            *)
(***************************************************************************)
EXTENDS Integers, Sequences, FiniteSets, TLC

\* ------------------------------------------------------------ constants

ROWS == 7
COLS == 7
MIMIC_INITIAL_ROW == 4
MIMIC_INITIAL_COL == 4
MAX_BLOCKS_TO_REMOVE == 10
\* u8::MAX, the first value of blocks_removed
U8_MAX == 255
\* the first value of countdown in solve
COUNTDOWN_START == 2
\* the last combination size solve builds (for size in 1..11)
LAST_SIZE == 10

\* --------------------------------------------------------------- bounds

\* the number of tokens the input holds after its base pattern, at most
MaxExtra == 2
\* the number of cells of a candidate evaluated on its own, at most
MaxCand == 1

\* -------------------------------------------------------- grid topology

AllCells == (1..ROWS) \X (1..COLS)

\* the cells in row-major order (for row in 1..ROWS+1, for col in 1..COLS+1)
AllCellsSeq == [i \in 1..(ROWS * COLS) |-> <<((i - 1) \div COLS) + 1, ((i - 1) % COLS) + 1>>]

Pivot == <<MIMIC_INITIAL_ROW, MIMIC_INITIAL_COL>>

is_valid_location(loc) == loc[1] > 0 /\ loc[1] < 8 /\ loc[2] > 0 /\ loc[2] < 8

is_outer(row, col) == row % 6 = 1 \/ col % 6 = 1

CellIsOuter(cell) == is_outer(cell[1], cell[2])

\* the six raw offsets, chosen by the parity of the column
NeighborLocations(row, col) ==
    IF col % 2 = 0
    THEN << <<row - 1, col>>, <<row, col - 1>>, <<row, col + 1>>,
            <<row + 1, col - 1>>, <<row + 1, col + 1>>, <<row + 1, col>> >>
    ELSE << <<row - 1, col>>, <<row - 1, col - 1>>, <<row - 1, col + 1>>,
            <<row, col - 1>>, <<row, col + 1>>, <<row + 1, col>> >>

get_neighbors(row, col) == SelectSeq(NeighborLocations(row, col), is_valid_location)

CellNeighbors(cell) == get_neighbors(cell[1], cell[2])

\* ---------------------------------------------------------- board state

Range(s) == {s[i] : i \in 1..Len(s)}

\* the members of a set of cells, in row-major order
CellsInOrder(S) == SelectSeq(AllCellsSeq, LAMBDA c : c \in S)

\* Board::new: every cell live, the index empty (Default)
BoardNew == [cells |-> AllCells, map_live_outer_cells |-> {}]

value_at(b, row, col) == <<row, col>> \in b.cells

value_at_cell(b, cell) == cell \in b.cells

\* drop_cell without the removal from map_live_outer_cells
DropCellKeepsIndex(b, row, col) ==
    [cells |-> b.cells \ {<<row, col>>},
     map_live_outer_cells |-> b.map_live_outer_cells]

drop_cell(b, row, col) ==
    [cells |-> b.cells \ {<<row, col>>},
     map_live_outer_cells |->
        IF is_outer(row, col)
        THEN b.map_live_outer_cells \ {<<row, col>>}
        ELSE b.map_live_outer_cells]

gen_map_live_outer_cells(b) ==
    [b EXCEPT !.map_live_outer_cells =
        @ \cup {c \in AllCells : value_at(b, c[1], c[2])
                                  /\ (c[1] % 6 = 1 \/ c[2] % 6 = 1)}]

RECURSIVE DropEach(_, _)
\* for cell in removing_cells { board.drop_cell(cell.row, cell.col) }
DropEach(b, removing_cells) ==
    IF removing_cells = <<>> THEN b
    ELSE DropEach(drop_cell(b, Head(removing_cells)[1], Head(removing_cells)[2]),
                  Tail(removing_cells))

create_imagine_board(b, removing_cells) ==
    DropEach([cells |-> b.cells, map_live_outer_cells |-> b.map_live_outer_cells],
             removing_cells)

RECURSIVE FromInputLoopSkipsInvalid(_, _)
\* FromInputLoop with `continue` for the panic: an invalid value is skipped
FromInputLoopSkipsInvalid(b, values) ==
    IF values = <<>> THEN [panicked |-> FALSE, board |-> b]
    ELSE LET value == Head(values)
             col == value \div 10
             row == value % 10
         IN  IF ~is_valid_location(<<row, col>>)
             THEN FromInputLoopSkipsInvalid(b, Tail(values))
             ELSE FromInputLoopSkipsInvalid(drop_cell(b, row, col), Tail(values))

RECURSIVE FromInputLoop(_, _)
\* the loop of from_input over the values left; panics on the first value
\* whose (row, col) is no valid location
FromInputLoop(b, values) ==
    IF values = <<>> THEN [panicked |-> FALSE, board |-> b]
    ELSE LET value == Head(values)
             col == value \div 10
             row == value % 10
         IN  IF ~is_valid_location(<<row, col>>)
             THEN [panicked |-> TRUE, board |-> b]
             ELSE FromInputLoop(drop_cell(b, row, col), Tail(values))

from_input(values) == FromInputLoop(gen_map_live_outer_cells(BoardNew), values)

\* ------------------------------------------------------ cascade collapse

\* the live neighbours of a cell, in the order of get_neighbors
LiveNeighbors(b, cell) == SelectSeq(CellNeighbors(cell), LAMBDA c : value_at_cell(b, c))

\* PassSelects with `live_neighbors.len() > 2` for `> 1`
PassSelectsBelowThree(b, cell) ==
    LET live_neighbors == LiveNeighbors(b, cell)
    IN  IF Len(live_neighbors) > 2 THEN FALSE
        ELSE IF Len(live_neighbors) = 0 THEN TRUE
        ELSE CellIsOuter(live_neighbors[1])

\* whether one pass of remove_redundant_blocks pushes the cell to removing_cells
PassSelects(b, cell) ==
    LET live_neighbors == LiveNeighbors(b, cell)
    IN  IF Len(live_neighbors) > 1 THEN FALSE
        ELSE IF Len(live_neighbors) = 0 THEN TRUE
        ELSE CellIsOuter(live_neighbors[1])

\* PassRemoving reading the board as the pass has changed it so far: a
\* cell is selected when the cells selected before it are taken as dropped
PassRemovingInPlace(b) ==
    LET RECURSIVE Scan(_, _, _)
        Scan(cells, bb, acc) ==
            IF cells = <<>> THEN acc
            ELSE IF PassSelects(bb, Head(cells))
                 THEN Scan(Tail(cells),
                           drop_cell(bb, Head(cells)[1], Head(cells)[2]),
                           acc \cup {Head(cells)})
                 ELSE Scan(Tail(cells), bb, acc)
    IN  Scan(CellsInOrder(b.map_live_outer_cells), b, {})

\* removing_cells at the end of the for loop of one pass: the index is not
\* changed while it is iterated, so the iteration order does not matter
PassRemoving(b) == {cell \in b.map_live_outer_cells : PassSelects(b, cell)}

\* the board after one pass has dropped its removing_cells
PassDrop(b) == DropEach(b, CellsInOrder(PassRemoving(b)))

\* RedundantLoop with the while loop left after its first pass
RedundantLoopOnePass(b) == PassDrop(b)

RECURSIVE RedundantLoop(_)
\* while blocks_removed != 0: the loop body runs until a pass removes nothing
RedundantLoop(b) ==
    IF PassRemoving(b) = {} THEN b ELSE RedundantLoop(PassDrop(b))

remove_redundant_blocks(b) == RedundantLoop(b)

\* --------------------------------------------------------- reachability

\* the orders in which the neighbours of a dequeued cell are examined: the
\* order of get_neighbors, its reverse, and the same order started one later
NeighborOrders == {"forward", "reverse", "rotated"}

Reverse(s) == [i \in 1..Len(s) |-> s[Len(s) + 1 - i]]

InOrder(s, order) ==
    IF order = "reverse" THEN Reverse(s)
    ELSE IF order = "rotated" /\ s # <<>> THEN Tail(s) \o <<Head(s)>>
    ELSE s

\* SkipsNeighbor without the test of two outer cells
SkipsNeighborOuterAllowed(b, cell, neighbor_cell, visited, queued) ==
    \/ ~value_at_cell(b, neighbor_cell)
    \/ neighbor_cell \in visited
    \/ neighbor_cell \in queued

\* whether the for loop over the neighbours skips neighbor_cell (`continue`)
SkipsNeighbor(b, cell, neighbor_cell, visited, queued) ==
    \/ ~value_at_cell(b, neighbor_cell)
    \/ (CellIsOuter(cell) /\ CellIsOuter(neighbor_cell))
    \/ neighbor_cell \in visited
    \/ neighbor_cell \in queued

RECURSIVE ExamineNeighborsBreak(_, _, _, _, _, _)
\* ExamineNeighbors with `break` for `continue` at a dead neighbour
ExamineNeighborsBreak(b, cell, neighbors, queue, visited, queued) ==
    IF neighbors = <<>> THEN [queue |-> queue, queued |-> queued]
    ELSE LET neighbor_cell == Head(neighbors)
         IN  IF ~value_at_cell(b, neighbor_cell)
             THEN [queue |-> queue, queued |-> queued]
             ELSE IF SkipsNeighbor(b, cell, neighbor_cell, visited, queued)
             THEN ExamineNeighborsBreak(b, cell, Tail(neighbors), queue, visited, queued)
             ELSE ExamineNeighborsBreak(b, cell, Tail(neighbors),
                                        Append(queue, neighbor_cell), visited,
                                        queued \cup {neighbor_cell})

RECURSIVE ExamineNeighbors(_, _, _, _, _, _)
\* for neighbor_cell in cell.get_neighbors() { ... }: the queue and the
\* queued map after the neighbours left have been examined
ExamineNeighbors(b, cell, neighbors, queue, visited, queued) ==
    IF neighbors = <<>> THEN [queue |-> queue, queued |-> queued]
    ELSE LET neighbor_cell == Head(neighbors)
         IN  IF SkipsNeighbor(b, cell, neighbor_cell, visited, queued)
             THEN ExamineNeighbors(b, cell, Tail(neighbors), queue, visited, queued)
             ELSE ExamineNeighbors(b, cell, Tail(neighbors),
                                   Append(queue, neighbor_cell), visited,
                                   queued \cup {neighbor_cell})

\* the locals of get_reachable_cells before its while loop
ReachStart == [queue |-> <<Pivot>>, visited |-> {}, queued |-> {}]

\* one iteration of the while loop: pop the front, mark it, examine its
\* neighbours in the given order
ReachIteration(b, s, order) ==
    LET cell == Head(s.queue)
        visited == s.visited \cup {cell}
        ex == ExamineNeighbors(b, cell, InOrder(CellNeighbors(cell), order),
                               Tail(s.queue), visited, s.queued)
    IN  [queue |-> ex.queue, visited |-> visited, queued |-> ex.queued]

RECURSIVE ReachLoop(_, _)
ReachLoop(b, s) ==
    IF s.queue = <<>> THEN s ELSE ReachLoop(b, ReachIteration(b, s, "forward"))

\* the keys of visited on return (a Vec in the HashMap's order: a set)
get_reachable_cells(b) == ReachLoop(b, ReachStart).visited

\* ------------------------------------------------------------- benefit

\* lines 225-227: the imaginary board, collapsed
ImagineryBoard(b, removing_cells) ==
    remove_redundant_blocks(create_imagine_board(b, removing_cells))

\* calc_benefit with the budget test on border_cells.len() alone
CalcBenefitBudgetOnBorder(b, removing_cells) ==
    LET reachable_cells == get_reachable_cells(ImagineryBoard(b, removing_cells))
        border_cells == {cell \in reachable_cells : CellIsOuter(cell)}
    IN  IF Cardinality(border_cells) > MAX_BLOCKS_TO_REMOVE
        THEN [benefit |-> -1, cells |-> <<>>]
        ELSE [benefit |-> Cardinality(reachable_cells) - Cardinality(border_cells),
              cells |-> CellsInOrder(border_cells) \o removing_cells]

\* calc_benefit returning border_cells without the chained removing_cells
CalcBenefitBorderCellsOnly(b, removing_cells) ==
    LET reachable_cells == get_reachable_cells(ImagineryBoard(b, removing_cells))
        border_cells == {cell \in reachable_cells : CellIsOuter(cell)}
    IN  IF Cardinality(border_cells) + Len(removing_cells) > MAX_BLOCKS_TO_REMOVE
        THEN [benefit |-> -1, cells |-> <<>>]
        ELSE [benefit |-> Cardinality(reachable_cells) - Cardinality(border_cells),
              cells |-> CellsInOrder(border_cells)]

\* calc_benefit scoring reachable_cells.len() without taking the border off
CalcBenefitCountsBorder(b, removing_cells) ==
    LET reachable_cells == get_reachable_cells(ImagineryBoard(b, removing_cells))
        border_cells == {cell \in reachable_cells : CellIsOuter(cell)}
    IN  IF Cardinality(border_cells) + Len(removing_cells) > MAX_BLOCKS_TO_REMOVE
        THEN [benefit |-> -1, cells |-> <<>>]
        ELSE [benefit |-> Cardinality(reachable_cells),
              cells |-> CellsInOrder(border_cells) \o removing_cells]

\* (benefit, total_removing_cells); border_cells come from the keys of a
\* HashMap, in an order no caller reads: they are listed in row-major order
calc_benefit(b, removing_cells) ==
    LET imaginery_board == ImagineryBoard(b, removing_cells)
        reachable_cells == get_reachable_cells(imaginery_board)
        border_cells == {cell \in reachable_cells : CellIsOuter(cell)}
        num_total_removing_cells == Cardinality(border_cells) + Len(removing_cells)
    IN  IF num_total_removing_cells > MAX_BLOCKS_TO_REMOVE
        THEN [benefit |-> -1, cells |-> <<>>]
        ELSE [benefit |-> Cardinality(reachable_cells) - Cardinality(border_cells),
              cells |-> CellsInOrder(border_cells) \o removing_cells]

\* SelfAfterCalcBenefit with new_board an alias of self for a clone of it
SelfAfterCalcBenefitAliased(b, removing_cells) == DropEach(b, removing_cells)

\* the receiver (&mut self) after calc_benefit has returned: the call
\* hands self to create_imagine_board only, which clones its cells and its
\* index (lines 105-108) and drops the cells on the clone; the cascade and
\* the reachability run on the clone
SelfAfterCalcBenefit(b, removing_cells) == b

\* -------------------------------------------------------------- search

get_available_blocks(b) ==
    SelectSeq(AllCellsSeq,
              LAMBDA cell : /\ value_at_cell(b, cell)
                            /\ (cell[1] # MIMIC_INITIAL_ROW \/ cell[2] # MIMIC_INITIAL_COL)
                            /\ ~CellIsOuter(cell))

RECURSIVE Combinations(_, _)
\* itertools' combinations(size) of a sequence: the sub-sequences of that
\* length, in lexicographic order of their positions
Combinations(s, size) ==
    IF size = 0 THEN << <<>> >>
    ELSE IF Len(s) < size THEN <<>>
    ELSE LET withHead == Combinations(Tail(s), size - 1)
         IN  [i \in 1..Len(withHead) |-> <<Head(s)>> \o withHead[i]]
             \o Combinations(Tail(s), size)

\* map_size_combinations[sz] (lines 257-269), which solve builds once from
\* available_blocks and never changes: vec![vec![]] under 0, the
\* combinations of that many available blocks under 1..10
SizeCombinations(blocks, sz) == Combinations(blocks, sz)

\* lines 289-302: the per-size best and current_combinations after one
\* evaluated combination
TrackSizeBest(msb, current, sz, ben, removing) ==
    IF sz \in DOMAIN msb
    THEN IF ben > msb[sz]
         THEN [map_size_benefit |-> [msb EXCEPT ![sz] = ben],
               current_combinations |-> <<removing>>]
         ELSE IF ben = msb[sz]
         THEN [map_size_benefit |-> msb,
               current_combinations |-> Append(current, removing)]
         ELSE [map_size_benefit |-> msb, current_combinations |-> current]
    ELSE [map_size_benefit |-> (sz :> ben) @@ msb,
          current_combinations |-> current]

\* SizeVerdict without the test `benefit != -1` of its first arm
SizeVerdictCountsRejected(ben, best, best_combinations, current, cd) ==
    IF ben < best
    THEN [max_benefit |-> best,
          max_benefit_combinations |-> best_combinations,
          countdown |-> cd - 1]
    ELSE IF ben = best
    THEN [max_benefit |-> best,
          max_benefit_combinations |-> best_combinations \o current,
          countdown |-> COUNTDOWN_START]
    ELSE [max_benefit |-> ben,
          max_benefit_combinations |-> current,
          countdown |-> cd]

\* SizeVerdict whose first arm stores a lower score that is not -1 as the
\* global best
SizeVerdictKeepsLast(ben, best, best_combinations, current, cd) ==
    IF ben < best
    THEN [max_benefit |-> IF ben # -1 THEN ben ELSE best,
          max_benefit_combinations |-> best_combinations,
          countdown |-> IF ben # -1 THEN cd - 1 ELSE cd]
    ELSE IF ben = best
    THEN [max_benefit |-> best,
          max_benefit_combinations |-> best_combinations \o current,
          countdown |-> COUNTDOWN_START]
    ELSE [max_benefit |-> ben,
          max_benefit_combinations |-> current,
          countdown |-> cd]

\* lines 306-320: the global best, the result list and the countdown after
\* a size whose best is ben
SizeVerdict(ben, best, best_combinations, current, cd) ==
    IF ben < best
    THEN [max_benefit |-> best,
          max_benefit_combinations |-> best_combinations,
          countdown |-> IF ben # -1 THEN cd - 1 ELSE cd]
    ELSE IF ben = best
    THEN [max_benefit |-> best,
          max_benefit_combinations |-> best_combinations \o current,
          countdown |-> COUNTDOWN_START]
    ELSE [max_benefit |-> ben,
          max_benefit_combinations |-> current,
          countdown |-> cd]

\* --------------------------------------------------------------- inputs

\* a value of the input line for a cell: col * 10 + row
Token(cell) == cell[2] * 10 + cell[1]

\* the interior cells the sparse pattern leaves live: the pivot, a column
\* down to row 6, two cells of row 6 that touch it only through outer
\* cells, and a column up to a stretch of row 2
SparseKept ==
    { <<4, 4>>, <<5, 4>>, <<6, 4>>, <<6, 2>>, <<6, 6>>,
      <<3, 4>>, <<2, 4>>, <<2, 5>>, <<2, 6>> }

\* the interior cells the tiny pattern leaves live: the pivot and the two
\* cells below it, fewer eligible cells than solve has sizes
TinyKept == { <<4, 4>>, <<5, 4>>, <<6, 4>> }

\* the input that drops every interior cell outside `kept`, in row-major order
PatternKeeping(kept) ==
    LET dropped == SelectSeq(AllCellsSeq,
                             LAMBDA c : ~CellIsOuter(c) /\ c \notin kept)
    IN  [i \in 1..Len(dropped) |-> Token(dropped[i])]

\* the interior cells the dip pattern leaves live: 13 eligible cells on
\* which the best score goes 10, 9, 11, 10 over the sizes 1 to 4
DipKept ==
    { <<2, 2>>, <<3, 2>>, <<3, 3>>, <<4, 3>>, <<4, 4>>, <<4, 5>>, <<5, 2>>,
      <<5, 3>>, <<5, 4>>, <<5, 5>>, <<5, 6>>, <<6, 4>>, <<6, 5>>, <<6, 6>> }

SparsePattern == PatternKeeping(SparseKept)

DipPattern == PatternKeeping(DipKept)

TinyPattern == PatternKeeping(TinyKept)

\* the values that may follow a pattern: interior cells, outer cells, the
\* pivot (44), and a value outside the grid (80: col 8, row 0)
ExtraTokens == {52, 66, 26, 45, 37, 57, 21, 44, 80}

RECURSIVE SeqsUpTo(_, _)
\* the sequences over S of length at most n
SeqsUpTo(S, n) ==
    IF n = 0 THEN {<<>>}
    ELSE LET shorter == SeqsUpTo(S, n - 1)
         IN  shorter \cup {Append(q, x) : q \in shorter, x \in S}

Extras == SeqsUpTo(ExtraTokens, MaxExtra)

\* the inputs of the whole program: the search is run on sparse boards,
\* and on the dip pattern as it is
MainInputs ==
    {p \o e : p \in {SparsePattern, TinyPattern}, e \in Extras} \cup {DipPattern}

\* the inputs of single evaluations: the sparse boards and the full board
EvalInputs == MainInputs \cup {<<>>}

\* ---------------------------------------------------------------- state

VARIABLES
    pc,                        \* where the program is
    input,                     \* the values parse_input returned, until from_input takes them
    board,                     \* main's board
    blocks_removed,            \* remove_redundant_blocks: the cells the last pass selected
    available_blocks,          \* solve: the eligible cells
    size,                      \* solve: the size the outer for loop is at
    next_combination,          \* solve: the position in the size's combinations
    map_size_benefit,          \* solve: size -> best benefit at that size
    current_combinations,      \* solve
    max_benefit,               \* solve
    max_benefit_combinations,  \* solve
    countdown,                 \* solve
    combination,               \* the combination last passed to calc_benefit
    benefit,                   \* the benefit calc_benefit returned for it
    removing_cells,            \* the cells calc_benefit returned for it
    reach_board,               \* get_reachable_cells: the board it runs on
    reach,                     \* get_reachable_cells: queue, visited, queued
    order,                     \* the order in which neighbours are examined
    reach_cell,                \* the cell the last iteration dequeued
    reach_added                \* the cells the last iteration enqueued

vars == <<pc, input, board, blocks_removed, available_blocks, size,
          next_combination, map_size_benefit, current_combinations,
          max_benefit, max_benefit_combinations, countdown, combination,
          benefit, removing_cells, reach_board, reach, order, reach_cell,
          reach_added>>

solveVars == <<available_blocks, size, next_combination, map_size_benefit,
               current_combinations, max_benefit, max_benefit_combinations,
               countdown>>

evalVars == <<combination, benefit, removing_cells>>

reachVars == <<reach_board, reach, order, reach_cell, reach_added>>

NoCell == <<0, 0>>

EmptyMap == [k \in {} |-> 0]

InitWith(inputs) ==
    /\ pc = "start"
    /\ input \in inputs
    /\ board = BoardNew
    /\ blocks_removed = U8_MAX
    /\ available_blocks = <<>>
    /\ size = 0
    /\ next_combination = 1
    /\ map_size_benefit = EmptyMap
    /\ current_combinations = <<>>
    /\ max_benefit = 0
    /\ max_benefit_combinations = <<>>
    /\ countdown = COUNTDOWN_START
    /\ combination = <<>>
    /\ benefit = 0
    /\ removing_cells = <<>>
    /\ reach_board = BoardNew
    /\ reach = ReachStart
    /\ order = "forward"
    /\ reach_cell = NoCell
    /\ reach_added = {}

Init == InitWith(MainInputs)

InitEval == InitWith(EvalInputs)

\* -------------------------------------------------------------- actions

\* main: Board::from_input(input); a panic ends the program
FromInput ==
    /\ pc = "start"
    /\ LET r == from_input(input)
       IN  /\ pc' = IF r.panicked THEN "panic_input" ELSE "cascade"
           /\ board' = IF r.panicked THEN board ELSE r.board
    /\ input' = <<>>
    /\ UNCHANGED <<blocks_removed, solveVars, evalVars, reachVars>>

\* main: board.remove_redundant_blocks(), one pass of its while loop
RedundantPass ==
    /\ pc = "cascade"
    /\ blocks_removed # 0
    /\ blocks_removed' = Cardinality(PassRemoving(board))
    /\ board' = PassDrop(board)
    /\ UNCHANGED <<pc, input, solveVars, evalVars, reachVars>>

\* main: the cascade has returned and solve starts (lines 254-278)
SolveBegin ==
    /\ pc = "cascade"
    /\ blocks_removed = 0
    /\ pc' = "solve"
    /\ available_blocks' = get_available_blocks(board)
    /\ size' = 0
    /\ next_combination' = 1
    /\ map_size_benefit' = EmptyMap
    /\ current_combinations' = <<>>
    /\ max_benefit' = 0
    /\ max_benefit_combinations' = <<>>
    /\ countdown' = COUNTDOWN_START
    /\ UNCHANGED <<input, board, blocks_removed, evalVars, reachVars>>

\* SolveEvaluate without the `if countdown == 0 { break; }` before it
SolveEvaluateAfterCountdown ==
    /\ pc = "solve"
    /\ size <= LAST_SIZE
    /\ next_combination <= Len(SizeCombinations(available_blocks, size))
    /\ \E c \in {SizeCombinations(available_blocks, size)[next_combination]} :
       \E r \in {calc_benefit(board, c)} :
       LET t == TrackSizeBest(map_size_benefit, current_combinations, size,
                              r.benefit, r.cells)
       IN  /\ combination' = c
           /\ benefit' = r.benefit
           /\ removing_cells' = r.cells
           /\ map_size_benefit' = t.map_size_benefit
           /\ current_combinations' = t.current_combinations
           /\ board' = SelfAfterCalcBenefit(board, c)
    /\ next_combination' = next_combination + 1
    /\ UNCHANGED <<pc, input, blocks_removed, available_blocks, size,
                   max_benefit, max_benefit_combinations, countdown, reachVars>>

\* solve: one iteration of `for combination in combinations`
SolveEvaluate ==
    /\ pc = "solve"
    /\ countdown # 0
    /\ size <= LAST_SIZE
    /\ next_combination <= Len(SizeCombinations(available_blocks, size))
    /\ \E c \in {SizeCombinations(available_blocks, size)[next_combination]} :
       \E r \in {calc_benefit(board, c)} :
       LET t == TrackSizeBest(map_size_benefit, current_combinations, size,
                              r.benefit, r.cells)
       IN  /\ combination' = c
           /\ benefit' = r.benefit
           /\ removing_cells' = r.cells
           /\ map_size_benefit' = t.map_size_benefit
           /\ current_combinations' = t.current_combinations
           /\ board' = SelfAfterCalcBenefit(board, c)
    /\ next_combination' = next_combination + 1
    /\ UNCHANGED <<pc, input, blocks_removed, available_blocks, size,
                   max_benefit, max_benefit_combinations, countdown, reachVars>>

\* solve: the end of a size (lines 305-320); unwrap panics when the size
\* had no combination
SolveSizeEnd ==
    /\ pc = "solve"
    /\ countdown # 0
    /\ size <= LAST_SIZE
    /\ next_combination > Len(SizeCombinations(available_blocks, size))
    /\ IF size \notin DOMAIN map_size_benefit
       THEN /\ pc' = "panic_unwrap"
            /\ UNCHANGED <<size, next_combination, max_benefit,
                           max_benefit_combinations, countdown>>
       ELSE LET v == SizeVerdict(map_size_benefit[size], max_benefit,
                                 max_benefit_combinations,
                                 current_combinations, countdown)
            IN  /\ pc' = pc
                /\ max_benefit' = v.max_benefit
                /\ max_benefit_combinations' = v.max_benefit_combinations
                /\ countdown' = v.countdown
                /\ size' = size + 1
                /\ next_combination' = 1
    /\ UNCHANGED <<input, board, blocks_removed, available_blocks,
                   map_size_benefit, current_combinations, evalVars, reachVars>>

\* solve: the for loop over the sizes ends (break, or no size is left) and
\* solve returns (max_benefit, max_benefit_combinations)
SolveReturn ==
    /\ pc = "solve"
    /\ (countdown = 0 \/ size > LAST_SIZE)
    /\ pc' = "done"
    /\ UNCHANGED <<input, board, blocks_removed, solveVars, evalVars, reachVars>>

\* the cascade of main has returned: the board solve is called on
Stable ==
    /\ pc = "cascade"
    /\ blocks_removed = 0
    /\ pc' = "stable"
    /\ available_blocks' = get_available_blocks(board)
    /\ UNCHANGED <<input, board, blocks_removed, size, next_combination,
                   map_size_benefit, current_combinations, max_benefit,
                   max_benefit_combinations, countdown, evalVars, reachVars>>

\* one call calc_benefit(&combination) of solve on its own, for a
\* combination of at most MaxCand available blocks
EvaluateCombination ==
    /\ pc = "stable"
    /\ \E sz \in 0..MaxCand :
         \E i \in 1..Len(SizeCombinations(available_blocks, sz)) :
            \E c \in {SizeCombinations(available_blocks, sz)[i]} :
            \E r \in {calc_benefit(board, c)} :
                /\ combination' = c
                /\ benefit' = r.benefit
                /\ removing_cells' = r.cells
                /\ board' = SelfAfterCalcBenefit(board, c)
    /\ pc' = "evaluated"
    /\ UNCHANGED <<input, blocks_removed, solveVars, reachVars>>

\* the call of get_reachable_cells inside that evaluation (line 229), step
\* by step: its locals before the while loop
ReachBegin ==
    /\ pc = "evaluated"
    /\ pc' = "reach"
    /\ reach_board' = ImagineryBoard(board, combination)
    /\ reach' = ReachStart
    /\ order' \in NeighborOrders
    /\ reach_cell' = NoCell
    /\ reach_added' = {}
    /\ UNCHANGED <<input, board, blocks_removed, solveVars, evalVars>>

\* one iteration of `while !queue.is_empty()`
ReachStep ==
    /\ pc = "reach"
    /\ reach.queue # <<>>
    /\ reach' = ReachIteration(reach_board, reach, order)
    /\ reach_cell' = Head(reach.queue)
    /\ reach_added' = reach'.queued \ reach.queued
    /\ UNCHANGED <<pc, input, board, blocks_removed, solveVars, evalVars,
                   reach_board, order>>

\* the queue is empty: get_reachable_cells returns the keys of visited
ReachReturn ==
    /\ pc = "reach"
    /\ reach.queue = <<>>
    /\ pc' = "reached"
    /\ UNCHANGED <<input, board, blocks_removed, solveVars, evalVars, reachVars>>

NextEval ==
    \/ FromInput
    \/ RedundantPass
    \/ Stable
    \/ EvaluateCombination
    \/ ReachBegin
    \/ ReachStep
    \/ ReachReturn

SpecEval == InitEval /\ [][NextEval]_vars

Next ==
    \/ FromInput
    \/ RedundantPass
    \/ SolveBegin
    \/ SolveEvaluate
    \/ SolveSizeEnd
    \/ SolveReturn

Spec == Init /\ [][Next]_vars

\* the program as it runs: the while loop of remove_redundant_blocks keeps
\* making passes as long as its condition holds
SpecCascade == Init /\ [][Next]_vars /\ WF_vars(RedundantPass)

\* --------------------------------------------------------------- claims

\* the sizes whose combinations solve evaluated before it returned
EvaluatedSizes == 0..(size - 1)

\* C1: every cell set in the list solve returns, passed again to
\* calc_benefit on the same base board, yields the best score solve returned
C1_ResultSetsScoreBest ==
    pc = "done" =>
        \A i \in 1..Len(max_benefit_combinations) :
            calc_benefit(board, max_benefit_combinations[i]).benefit = max_benefit

\* C2: the list solve returns holds the effective removal set of every
\* combination of every evaluated size whose score equals the returned best
C2_ResultHoldsEveryBest ==
    pc = "done" =>
        \A sz \in EvaluatedSizes :
            \A i \in 1..Len(SizeCombinations(available_blocks, sz)) :
                LET r == calc_benefit(board, SizeCombinations(available_blocks, sz)[i])
                IN  r.benefit = max_benefit =>
                        \E j \in 1..Len(max_benefit_combinations) :
                            Range(max_benefit_combinations[j]) = Range(r.cells)

\* the board from_input returns for the empty input: all 49 cells live,
\* the index holding the 24 outer cells
FreshBoard == [cells |-> AllCells,
               map_live_outer_cells |-> {c \in AllCells : CellIsOuter(c)}]

\* a traversal edge of the reachability rule: to a live neighbour, never
\* from an outer cell to an outer cell
Edge(b, from, to) ==
    /\ to \in Range(CellNeighbors(from))
    /\ to \in b.cells
    /\ ~(CellIsOuter(from) /\ CellIsOuter(to))

\* the cells one edge away from a cell
EdgesFrom(b, from) == {to \in Range(CellNeighbors(from)) : Edge(b, from, to)}

RECURSIVE ClosedUnderEdges(_, _, _)
\* S with everything that edges reach from its members `fresh`
ClosedUnderEdges(b, S, fresh) ==
    LET found == UNION {EdgesFrom(b, from) : from \in fresh} \ S
    IN  IF found = {} THEN S ELSE ClosedUnderEdges(b, S \cup found, found)

\* the least set that holds the pivot and is closed under the edges
ConnectedToPivot(b) == ClosedUnderEdges(b, {Pivot}, {Pivot})

OuterOf(S) == {c \in S : CellIsOuter(c)}

InteriorOf(S) == {c \in S : ~CellIsOuter(c)}

\* C3: when the outer cells reachable from the pivot after the collapse plus
\* the candidate cells exceed 10, calc_benefit returns -1 and an empty set;
\* otherwise it returns a score other than -1
C3_BudgetRejection ==
    pc = "evaluated" =>
        LET border == OuterOf(ConnectedToPivot(ImagineryBoard(board, combination)))
        IN  IF Cardinality(border) + Len(combination) > 10
            THEN benefit = -1 /\ removing_cells = <<>>
            ELSE benefit # -1

\* a candidate rejected although 10 outer cells or fewer are reachable: its
\* own cells take it past the budget
C3_Witness ==
    /\ pc = "evaluated"
    /\ benefit = -1
    /\ combination # <<>>
    /\ Cardinality(OuterOf(ConnectedToPivot(ImagineryBoard(board, combination)))) <= 10

\* the outer cells of the base board whose only live neighbour is the cell
OnlySupportedBy(b, cell) ==
    {o \in OuterOf(b.cells) : Range(LiveNeighbors(b, o)) = {cell}}

\* C4 as claimed: for a candidate of one live interior cell that is the
\* only live neighbour of an outer cell, an accepted evaluation returns a
\* set holding the candidate cell and the collapsed outer cell
C4_CollapsedCellReturned ==
    (pc = "evaluated" /\ Len(combination) = 1 /\ benefit # -1) =>
        \A o \in OnlySupportedBy(board, combination[1]) :
            /\ combination[1] \in Range(removing_cells)
            /\ o \in Range(removing_cells)

\* C4 as amended: the returned set holds the candidate cell and never the
\* collapsed outer cell; it is the candidate and the outer cells still
\* reachable
C4_CollapsedCellNotReturned ==
    (pc = "evaluated" /\ Len(combination) = 1 /\ benefit # -1) =>
        \A o \in OnlySupportedBy(board, combination[1]) :
            /\ combination[1] \in Range(removing_cells)
            /\ o \notin Range(removing_cells)
            /\ o \notin ImagineryBoard(board, combination).cells
            /\ Range(removing_cells) =
                 OuterOf(ConnectedToPivot(ImagineryBoard(board, combination)))
                 \cup {combination[1]}

C4_Witness ==
    /\ pc = "evaluated"
    /\ Len(combination) = 1
    /\ benefit # -1
    /\ OnlySupportedBy(board, combination[1]) # {}

\* C5 as claimed: on the fresh board the empty combination scores the
\* number of interior cells reachable from the pivot
C5_FreshScoresInterior ==
    (pc = "evaluated" /\ board = FreshBoard /\ combination = <<>>) =>
        benefit = Cardinality(InteriorOf(ConnectedToPivot(board)))

\* C5 as amended: on the fresh board the empty combination is rejected (-1,
\* no cells), as 22 outer cells are reachable, and 25 interior cells are;
\* on any board the empty combination scores the reachable interior cells
\* exactly when 10 outer cells or fewer are reachable
C5_FreshRejected ==
    (pc = "evaluated" /\ combination = <<>>) =>
        LET connected == ConnectedToPivot(board)
        IN  /\ board = FreshBoard =>
                /\ benefit = -1
                /\ removing_cells = <<>>
                /\ Cardinality(OuterOf(connected)) = 22
                /\ Cardinality(InteriorOf(connected)) = 25
            /\ Cardinality(OuterOf(connected)) <= 10 =>
                benefit = Cardinality(InteriorOf(connected))
            /\ Cardinality(OuterOf(connected)) > 10 => benefit = -1

C5_Witness ==
    pc = "evaluated" /\ board = FreshBoard /\ combination = <<>>

\* C6: on the board built from the empty input remove_redundant_blocks
\* removes no cell: every pass leaves the cells and the index as they are
\* and selects nothing, every outer cell having two live neighbours or more
C6_FreshBoardUnchanged ==
    [][(pc = "cascade" /\ board = FreshBoard) =>
          /\ board' = FreshBoard
          /\ blocks_removed' = 0
          /\ \A o \in OuterOf(AllCells) : Len(LiveNeighbors(board, o)) >= 2]_vars

\* the cascade has run on the fresh board and returned
C6_Witness == pc = "stable" /\ board = FreshBoard

\* a board on which a further run of remove_redundant_blocks changes
\* nothing, as no live outer cell is unsupported
Settled(b) ==
    /\ remove_redundant_blocks(b) = b
    /\ PassDrop(b) = b
    /\ \A o \in OuterOf(b.cells) :
          LET live_neighbors == LiveNeighbors(b, o)
          IN  /\ Len(live_neighbors) # 0
              /\ ~(Len(live_neighbors) = 1 /\ CellIsOuter(live_neighbors[1]))

\* C7: once remove_redundant_blocks has returned (in main, and on the
\* imaginary board of an evaluation), running it again changes nothing
C7_CascadeIdempotent ==
    /\ pc = "stable" => Settled(board)
    /\ pc = "evaluated" => Settled(ImagineryBoard(board, combination))

\* the cascade of an evaluation took more than one pass to settle
C7_Witness ==
    /\ pc = "evaluated"
    /\ ImagineryBoard(board, combination)
         # PassDrop(create_imagine_board(board, combination))
    /\ Settled(ImagineryBoard(board, combination))

\* C8: the set get_reachable_cells returns is the same for every order in
\* which the neighbours of a dequeued cell are examined
C8_OrderIndependent ==
    pc = "reached" =>
        /\ reach.visited = get_reachable_cells(reach_board)
        /\ reach.visited = ConnectedToPivot(reach_board)

\* a run in another order than the code's that enqueued cells in another
\* order than the code does
C8_Witness ==
    /\ pc = "reached"
    /\ order # "forward"
    /\ Cardinality(reach.visited) > 3

\* C9: no outer cell is enqueued while an outer cell is processed; every
\* outer cell returned has a live interior neighbour that is returned, and
\* an outer cell whose live neighbours are all outer is not returned
C9_NoOuterToOuter ==
    /\ (pc = "reach" /\ reach_cell # NoCell /\ CellIsOuter(reach_cell)) =>
          \A c \in reach_added : ~CellIsOuter(c)
    /\ pc = "reached" =>
          \A o \in OuterOf(reach.visited) :
              /\ \E n \in Range(LiveNeighbors(reach_board, o)) :
                    ~CellIsOuter(n) /\ n \in reach.visited
              /\ ~(\A n \in Range(LiveNeighbors(reach_board, o)) : CellIsOuter(n))

\* a returned outer cell next to a live outer cell that is not returned
C9_Witness ==
    /\ pc = "reached"
    /\ \E o \in OuterOf(reach.visited) :
          \E n \in Range(LiveNeighbors(reach_board, o)) :
              CellIsOuter(n) /\ n \notin reach.visited

\* C10: when the pivot is dead on the board, get_reachable_cells returns
\* the empty set
C10_DeadPivotEmpty ==
    (pc = "reached" /\ Pivot \notin reach_board.cells) => reach.visited = {}

\* the (row, col) a value of the input stands for
Decoded(value) == <<value % 10, value \div 10>>

\* the values of the input whose row or column is outside 1..7
InvalidValues(values) ==
    {value \in Range(values) :
        ~(Decoded(value)[1] \in 1..7 /\ Decoded(value)[2] \in 1..7)}

\* C11: from_input decodes a value v to col = v / 10, row = v mod 10; when
\* a decoded row or col is outside 1..7 the program aborts there, no board
\* is returned and nothing runs afterwards; otherwise the returned board
\* has exactly the decoded cells of the whole input dropped
C11_InvalidInputAborts ==
    [][/\ pc = "start" =>
            IF InvalidValues(input) # {}
            THEN pc' = "panic_input" /\ board' = board
            ELSE /\ pc' = "cascade"
                 /\ board'.cells = AllCells \ {Decoded(value) : value \in Range(input)}
       /\ pc # "panic_input"]_vars

\* the program aborted in from_input, after the valid values of the
\* pattern had been applied to from_input's own board
C11_Witness == pc = "panic_input" /\ board = BoardNew

\* the scores calc_benefit gives the combinations of a size on the base board
SizeScores(sz) ==
    {calc_benefit(board, SizeCombinations(available_blocks, sz)[i]).benefit :
        i \in 1..Len(SizeCombinations(available_blocks, sz))}

\* the scores of the combinations of every evaluated size
EvaluatedScores == UNION {SizeScores(sz) : sz \in EvaluatedSizes}

\* C12: the score solve returns is the greatest score calc_benefit gives a
\* combination of an evaluated size: one of them obtained it and none
\* obtained more
C12_ReturnedScoreIsMaximum ==
    pc = "done" =>
        \E scores \in {EvaluatedScores} :
            /\ max_benefit \in scores
            /\ \A score \in scores : score <= max_benefit

\* solve returned after sizes that were rejected, a size that set the best
\* and sizes that scored less
C12_Witness ==
    /\ pc = "done"
    /\ \E sz \in EvaluatedSizes : map_size_benefit[sz] = -1
    /\ \E sz \in EvaluatedSizes : map_size_benefit[sz] \notin {-1, max_benefit}

SetsScoring(sz, score) ==
    {Range(calc_benefit(board, SizeCombinations(available_blocks, sz)[i]).cells) :
        i \in {j \in 1..Len(SizeCombinations(available_blocks, sz)) :
                  calc_benefit(board, SizeCombinations(available_blocks, sz)[j]).benefit
                      = score}}

\* the sets of cells a list of combinations holds
SetsOf(combinations) == {Range(combinations[i]) : i \in 1..Len(combinations)}

\* C14: when a size ends whose best score exceeds the global best, the
\* global best becomes that score, the result list becomes the best
\* combinations of that size, and the countdown is 2 afterwards
C14_ExceedResetsCountdown ==
    [][(/\ pc = "solve"
        /\ size' = size + 1
        /\ map_size_benefit[size] > max_benefit) =>
          /\ max_benefit' = map_size_benefit[size]
          /\ SetsOf(max_benefit_combinations') = SetsScoring(size, max_benefit')
          /\ countdown' = COUNTDOWN_START]_vars

\* solve has evaluated every combination of the size it is at
SizeFinished ==
    /\ pc = "solve"
    /\ size \in DOMAIN map_size_benefit
    /\ next_combination > Len(SizeCombinations(available_blocks, size))

\* C15: when solve has evaluated every combination of a size, the per-size
\* best is the greatest score of the combinations of that size, and
\* current_combinations holds the effective removal sets of exactly the
\* combinations of that size that obtain it
C15_SizeListHoldsSizeBest ==
    SizeFinished =>
        /\ \A score \in SizeScores(size) : score <= map_size_benefit[size]
        /\ map_size_benefit[size] \in SizeScores(size)
        /\ SetsOf(current_combinations) = SetsScoring(size, map_size_benefit[size])

\* C16: the end of a size whose best score is -1 leaves the countdown, the
\* global best and the result list as they were, and the global best is
\* never -1
C16_RejectedSizeChangesNothing ==
    [][/\ (pc = "solve" /\ size' = size + 1 /\ map_size_benefit[size] = -1) =>
            /\ countdown' = countdown
            /\ max_benefit' = max_benefit
            /\ max_benefit_combinations' = max_benefit_combinations
       /\ max_benefit # -1
       /\ max_benefit' # -1]_vars

\* solve has ended a size whose combinations were all rejected, and goes
\* on with the countdown it started with
C16_Witness ==
    /\ pc = "solve"
    /\ size >= 1
    /\ map_size_benefit[size - 1] = -1
    /\ next_combination = 1
    /\ countdown = COUNTDOWN_START

\* C17: solve goes through the sizes 0, 1, ..., 10 in ascending order and
\* evaluates combinations of the size it is at only; the end of a size
\* whose best is below the global best and not -1 takes exactly one off
\* the countdown, which otherwise changes only by being set to 2; with the
\* countdown at zero nothing more is evaluated and solve returns
C17_CountdownStopsSearch ==
    [][pc = "solve" =>
          /\ size' \in {size, size + 1}
          /\ countdown \in 0..COUNTDOWN_START
          /\ next_combination' = next_combination + 1 =>
                /\ size' = size
                /\ size \in 0..10
                /\ countdown # 0
                /\ Len(combination') = size
          /\ (size' = size + 1 /\ map_size_benefit[size] < max_benefit
                /\ map_size_benefit[size] # -1) => countdown' = countdown - 1
          /\ countdown' # countdown =>
                /\ size' = size + 1
                /\ \/ countdown' = countdown - 1
                         /\ map_size_benefit[size] < max_benefit
                   \/ countdown' = COUNTDOWN_START
          /\ countdown = 0 =>
                /\ pc' = "done"
                /\ UNCHANGED <<solveVars, evalVars>>]_vars

\* solve returned with sizes left, after two sizes that scored less than
\* the best
C17_Witness ==
    /\ pc = "done"
    /\ countdown = 0
    /\ size <= LAST_SIZE
    /\ map_size_benefit[size - 1] < max_benefit
    /\ map_size_benefit[size - 2] < max_benefit

\* the index of the board holds exactly its live outer cells
IndexConsistent(b) == b.map_live_outer_cells = OuterOf(b.cells)

\* the boards the program has derived from the base board in this state:
\* the base board, the imaginary board of the last evaluation before and
\* after its cascade, and the base board after a drop of any one cell
DerivedBoards ==
    {board, create_imagine_board(board, combination),
     ImagineryBoard(board, combination), PassDrop(board)}
    \cup {drop_cell(board, cell[1], cell[2]) : cell \in AllCells}

\* C18: once from_input has returned, the index of the base board and (in
\* the cascade, after it and after an evaluation) of every board derived
\* from it holds exactly the cells that are outer and live; a derived board has no live cell the base board lacks, and no
\* step brings a dead cell of the base board back to life
C18_IndexConsistent ==
    [][(pc \in {"cascade", "stable", "evaluated"} =>
          \A b \in DerivedBoards :
              /\ IndexConsistent(b)
              /\ b.cells \subseteq board.cells)
       /\ (pc' \notin {"start", "panic_input"} => IndexConsistent(board'))
       /\ board'.cells \subseteq board.cells]_vars

\* the input dropped an outer cell, and the cascade of an evaluation took
\* further outer cells out of the imaginary board
C18_Witness ==
    /\ pc = "evaluated"
    /\ combination # <<>>
    /\ OuterOf(AllCells) \ board.cells # {}
    /\ ImagineryBoard(board, combination).map_live_outer_cells
         # board.map_live_outer_cells
    /\ IndexConsistent(ImagineryBoard(board, combination))

\* the live outer cells a pass takes out of a board, stated on the board
\* at the start of the pass: those with no live neighbour, or with one
\* live neighbour that is outer
Unsupported(b) ==
    {o \in OuterOf(b.cells) :
        LET live == {n \in Range(CellNeighbors(o)) : n \in b.cells}
        IN  \/ live = {}
            \/ Cardinality(live) = 1 /\ \A n \in live : CellIsOuter(n)}

RECURSIVE PassesFrom(_)
\* the passes the while loop of remove_redundant_blocks makes on a board
PassesFrom(b) ==
    IF PassRemoving(b) = {} THEN 1 ELSE 1 + PassesFrom(PassDrop(b))

\* C19: a pass of remove_redundant_blocks takes out exactly the outer
\* cells that are unsupported on the board it starts with; it either
\* selects none, changes nothing and ends the loop, or strictly shrinks
\* the live outer cells; the loop makes at most one pass more than there
\* are live outer cells, and it ends
C19_CascadeTerminates ==
    /\ [][(pc = "cascade" /\ pc' = "cascade") =>
            /\ board'.cells = board.cells \ Unsupported(board)
            /\ blocks_removed' = Cardinality(Unsupported(board))
            /\ IF Unsupported(board) = {}
               THEN board' = board /\ blocks_removed' = 0
               ELSE /\ board'.map_live_outer_cells # board.map_live_outer_cells
                    /\ board'.map_live_outer_cells \subseteq board.map_live_outer_cells
            /\ PassesFrom(board) <= Cardinality(board.map_live_outer_cells) + 1]_vars
    /\ (pc = "cascade") ~> (pc = "cascade" /\ blocks_removed = 0)

\* the loop has ended after passes that removed cells: no live outer cell
\* is unsupported, and more outer cells are dead than the input dropped
C19_Witness ==
    /\ pc = "cascade"
    /\ blocks_removed = 0
    /\ Unsupported(board) = {}
    /\ Cardinality(OuterOf(AllCells) \ board.cells) > MaxExtra
    /\ PassesFrom(board) = 1

\* C20: solve never aborts: on every base board, also one with fewer than
\* 10 eligible cells, the end of a size that has no combination is not a
\* failure and the search goes on or returns
C20_SolveNeverAborts == pc # "panic_unwrap"

====
